---- MODULE Spec2Model ----
(***************************************************************************)
(* A model of package lhex: the label table (labels.go), the Dumper that   *)
(* renders writes and seeks as annotated hex-dump text, the line scanner   *)
(* and the Decoder that turns such text back into byte segments.           *)
(*                                                                         *)
(* Text is modelled as it is in the program: a line is a sequence of       *)
(* character codes ending in a newline, and a text is a sequence of lines. *)
(* Go slices that are nil or empty are both the empty sequence; the code   *)
(* only ever produces nil or non-empty slices where it tests for nil.      *)
(***************************************************************************)
EXTENDS Integers, Sequences, FiniteSets, TLC

VARIABLES
    dmp,      \* the Dumper under test, with the wrapped writer's contents (dmp.w)
    calls,    \* the calls made on the Dumper so far, with the caller's cursor
    input,    \* the text behind the Decoder's reader
    origin,   \* where input came from: hand-built lines, or Dump(B, O, L)
    dec,      \* the Decoder under test, with its scanner's reader position
    trace     \* what the Decoder's caller has observed so far

vars == <<dmp, calls, input, origin, dec, trace>>

encVars == <<dmp, calls>>
decVars == <<input, origin, dec, trace>>

(***************************************************************************)
(* Bounds of the model.                                                    *)
(***************************************************************************)
MaxOps == 3          \* Write and Seek calls made on one Dumper
MaxWriteLen == 2     \* bytes passed to one Write
MaxLines == 3        \* lines of a hand-built decoder input
MaxDumpLen == 3      \* bytes passed to Dump

(***************************************************************************)
(* Characters.                                                             *)
(***************************************************************************)
NL == 10
SP == 32
HASH == 35
HYPHEN == 45
DOT == 46
COLON == 58
BAR == 124

Min(a, b) == IF a < b THEN a ELSE b

\* The value v under the name F gives it: a local variable assigned once.
With(v, F(_)) == F(v)

\* Go's s[lo:hi] on a sequence indexed from 0.
Slice(s, lo, hi) == SubSeq(s, lo + 1, hi)

\* Go's s[i] on a sequence indexed from 0.
At(s, i) == s[i + 1]

Repeat(c, n) == [i \in 1..n |-> c]

RECURSIVE Flatten(_)
Flatten(ss) == IF ss = <<>> THEN <<>> ELSE Head(ss) \o Flatten(Tail(ss))

\* One uppercase hexadecimal digit, as fmt's %X writes it.
HexChar(v) == IF v < 10 THEN 48 + v ELSE 55 + v

RECURSIVE HexDigits(_)
HexDigits(n) ==
    IF n < 16 THEN <<HexChar(n)>> ELSE HexDigits(n \div 16) \o <<HexChar(n % 16)>>

\* fmt's %0wX of a non-negative integer: padded with zeros to at least w digits.
FmtHex(n, w) ==
    LET ds == HexDigits(n)
    IN  IF Len(ds) >= w THEN ds ELSE Repeat(48, w - Len(ds)) \o ds

\* strconv.IsPrint on a rune below 256.
IsPrint(r) == (r >= 32 /\ r < 127) \/ (r >= 161 /\ r # 173)

\* fmt's %c of a byte: the UTF-8 encoding of that code point.
FmtChar(b) == IF b < 128 THEN <<b>> ELSE <<192 + (b \div 64), 128 + (b % 64)>>

(***************************************************************************)
(* Strings: label names are sequences of character codes, compared as Go   *)
(* compares strings (bytewise, a proper prefix first).                     *)
(***************************************************************************)
RECURSIVE StrLess(_, _)
StrLess(a, b) ==
    IF b = <<>> THEN FALSE
    ELSE IF a = <<>> THEN TRUE
    ELSE IF Head(a) # Head(b) THEN Head(a) < Head(b)
    ELSE StrLess(Tail(a), Tail(b))

\* sort.Strings on a slice holding the names of set S once each.
RECURSIVE SortStrings(_)
SortStrings(S) ==
    IF S = {} THEN <<>>
    ELSE LET m == CHOOSE x \in S : \A y \in S \ {x} : StrLess(x, y)
         IN  <<m>> \o SortStrings(S \ {m})

\* sort.Slice with "<" on a slice holding the offsets of set S once each.
RECURSIVE SortOffsets(_)
SortOffsets(S) ==
    IF S = {} THEN <<>>
    ELSE LET m == CHOOSE x \in S : \A y \in S : x <= y
         IN  <<m>> \o SortOffsets(S \ {m})

Range(s) == {s[i] : i \in DOMAIN s}

(***************************************************************************)
(* labels.go: Labels, a map from name to offset with two derived fields.   *)
(***************************************************************************)
\* The zero Labels value; NewDumper's nil *Labels iterates the same way.
ZeroLabels == [lmap |-> <<>>, offLabels |-> <<>>, offsets |-> <<>>]

LabelsReset(lmap) ==
    LET offs == {lmap[n] : n \in DOMAIN lmap}
    IN  [lmap      |-> lmap,
         offLabels |-> [o \in offs |-> SortStrings({n \in DOMAIN lmap : lmap[n] = o})],
         offsets   |-> SortOffsets(offs)]

NewLabels(lmap) == LabelsReset(lmap)

\* Set as it would be if a new name were appended under its offset and the
\* names there were not sorted again.
LabelsSetUnsorted(l, name, ofs) ==
    IF name \in DOMAIN l.lmap
    THEN IF l.lmap[name] # ofs
         THEN LabelsReset([l.lmap EXCEPT ![name] = ofs])
         ELSE l
    ELSE [lmap      |-> [n \in DOMAIN l.lmap \cup {name} |->
                            IF n = name THEN ofs ELSE l.lmap[n]],
          offLabels |-> [o \in DOMAIN l.offLabels \cup {ofs} |->
                            IF o = ofs
                            THEN (IF ofs \in DOMAIN l.offLabels
                                  THEN l.offLabels[ofs] ELSE <<>>) \o <<name>>
                            ELSE l.offLabels[o]],
          offsets   |-> IF ofs \in DOMAIN l.offLabels
                        THEN l.offsets
                        ELSE SortOffsets(Range(l.offsets) \cup {ofs})]

LabelsSet(l, name, ofs) ==
    IF name \in DOMAIN l.lmap
    THEN IF l.lmap[name] # ofs
         THEN LabelsReset([l.lmap EXCEPT ![name] = ofs])
         ELSE l
    ELSE [lmap      |-> [n \in DOMAIN l.lmap \cup {name} |->
                            IF n = name THEN ofs ELSE l.lmap[n]],
          offLabels |-> [o \in DOMAIN l.offLabels \cup {ofs} |->
                            IF o = ofs
                            THEN SortStrings(
                                   (IF ofs \in DOMAIN l.offLabels
                                    THEN Range(l.offLabels[ofs]) ELSE {}) \cup {name})
                            ELSE l.offLabels[o]],
          offsets   |-> IF ofs \in DOMAIN l.offLabels
                        THEN l.offsets
                        ELSE SortOffsets(Range(l.offsets) \cup {ofs})]

\* labelIter.Next: the iterator after the call (ok is it.Ofs >= 0 afterwards,
\* offsets being non-negative).
IterNext(it) ==
    IF Len(it.iter) > 0
    THEN [it EXCEPT !.Ofs = Head(it.iter),
                    !.Labels = it.offLabels[Head(it.iter)],
                    !.iter = Tail(it.iter)]
    ELSE [it EXCEPT !.Ofs = -1, !.Labels = <<>>]

RECURSIVE IterSkip(_, _)
IterSkip(it, ofs) ==
    IF Len(it.iter) = 0 THEN IterNext(it)
    ELSE LET nx == IterNext(it)
         IN  IF nx.Ofs >= ofs THEN nx ELSE IterSkip(nx, ofs)

\* Labels.iter: an iterator positioned on the first offset at or after ofs.
LabelsIter(l, ofs) ==
    IterSkip([Ofs |-> 0, Labels |-> <<>>, offLabels |-> l.offLabels, iter |-> l.offsets],
             ofs)

(***************************************************************************)
(* The Dumper's dataBuf: the bytes of the line being assembled and the     *)
(* offset of the first of them.  data holds the have bytes that are live.  *)
(***************************************************************************)
RowLen == 16

ZeroBuf == [ofs |-> 0, data |-> <<>>, have |-> 0]

\* dataBuf.fill: copy(b.data[b.have:want], p).  The explicit panics are want > 16
\* and want < 0; slicing b.data[have:want] with have > want panics too.
BufFill(b, p, want) ==
    IF want > RowLen \/ want < 0 \/ b.have > want
    THEN [b |-> b, n |-> 0, panic |-> TRUE]
    ELSE LET n == Min(want - b.have, Len(p))
         IN  [b     |-> [b EXCEPT !.data = b.data \o SubSeq(p, 1, n), !.have = b.have + n],
              n     |-> n,
              panic |-> FALSE]

\* dataBuf.take
BufTake(b) ==
    [b    |-> [ofs |-> b.ofs + b.have, data |-> <<>>, have |-> 0],
     ofs  |-> b.ofs,
     data |-> b.data]

\* dataBuf.set
BufSet(b, ofs) ==
    IF b.have > 0
    THEN [b |-> b, panic |-> TRUE]
    ELSE [b |-> [b EXCEPT !.ofs = ofs], panic |-> FALSE]

(***************************************************************************)
(* Dumper.  w is everything written to the wrapped writer, one element per *)
(* line (every write the Dumper makes is one whole line).  panicked marks  *)
(* a call that ended in a panic.  log records, for each element of w, what *)
(* the Dumper wrote there: a data line with the offset of its first byte,  *)
(* the number of its bytes and whether it shows the offset, a label line,  *)
(* or the blank line of an honored seek.  The wrapped writer is any        *)
(* io.Writer: wcap is the number of lines it accepts before every further  *)
(* write to it fails (-1: it never fails, as a bytes.Buffer), and werrs    *)
(* counts the writes it has failed.                                        *)
(***************************************************************************)
Logged(kind, ofs, n, shown) == [kind |-> kind, ofs |-> ofs, n |-> n, shown |-> shown]

\* One write of a whole line to d.w: fmt.Fprintf(d.w, ...), fmt.Fprintln(d.w) or
\* d.w.Write(sb.Bytes()).  A failing writer takes nothing and returns an error.
WriterWrite(d, text, entry) ==
    IF d.wcap >= 0 /\ Len(d.w) >= d.wcap
    THEN [d EXCEPT !.werrs = d.werrs + 1]
    ELSE [d EXCEPT !.w = Append(d.w, text), !.log = Append(d.log, entry)]

NewDumper(labels) ==
    [closed        |-> FALSE,
     w             |-> <<>>,
     log           |-> <<>>,
     nextOff       |-> 0,
     writePending  |-> FALSE,
     wroteAnything |-> FALSE,
     labels        |-> labels,
     labelIter     |-> LabelsIter(labels, 0),
     data          |-> ZeroBuf,
     panicked      |-> FALSE,
     wcap          |-> -1,
     werrs         |-> 0]

\* fmt.Fprintf(d.w, ":%s\n", l)
LabelLine(l) == <<COLON>> \o l \o <<NL>>

\* Part 2 of writeLine: the hex columns, with the extra space after column 7.
HexColumns(buf, skipLeft, skipRight) ==
    Flatten([i \in 1..skipLeft |->
                <<SP, SP, SP>> \o (IF i - 1 = 7 THEN <<SP>> ELSE <<>>)])
    \o Flatten([i \in 1..Len(buf) |->
                FmtHex(buf[i], 2) \o <<SP>>
                \o (IF (i - 1) + skipLeft = 7 THEN <<SP>> ELSE <<>>)])
    \o Flatten([i \in 1..skipRight |->
                <<SP, SP, SP>>
                \o (IF (i - 1) + Len(buf) + skipLeft = 7 THEN <<SP>> ELSE <<>>)])

\* Part 3 of writeLine: the printable characters between bars.
AsciiColumn(buf, skipLeft) ==
    Repeat(SP, skipLeft) \o <<SP, BAR>>
    \o Flatten([i \in 1..Len(buf) |->
                IF IsPrint(buf[i]) /\ buf[i] # BAR THEN FmtChar(buf[i]) ELSE <<DOT>>])
    \o <<BAR, NL>>

\* Part 1 as it would be if only a line at a multiple of 16 showed its offset.
ShowsOffsetAligned(ofs, forceOffset) == ofs % RowLen = 0

\* Part 1 of writeLine: whether the line shows its offset.
ShowsOffset(ofs, forceOffset) ==
    LET left0    == ofs % RowLen
        skipLeft == IF forceOffset /\ left0 > 0 THEN 0 ELSE left0
    IN  skipLeft = 0 \/ forceOffset

\* The text of one data line, as writeLine accumulates it in sb.
RenderLine(ofs, buf, forceOffset) ==
    LET left0     == ofs % RowLen
        right0    == RowLen - (Len(buf) + left0)
        skipLeft  == IF forceOffset /\ left0 > 0 THEN 0 ELSE left0
        skipRight == IF forceOffset /\ left0 > 0 THEN right0 + left0 ELSE right0
    IN  (IF ShowsOffset(ofs, forceOffset)
         THEN FmtHex(ofs, 8) \o <<SP, SP>>
         ELSE Repeat(SP, 8) \o <<SP, SP>>)
        \o HexColumns(buf, skipLeft, skipRight)
        \o AsciiColumn(buf, skipLeft)

\* Dumper.writeLine
WriteLine(d, forceOffset) ==
    LET t == BufTake(d.data)
    IN  WriterWrite([d EXCEPT !.data = t.b],
                    RenderLine(t.ofs, t.data, forceOffset),
                    Logged("data", t.ofs, Len(t.data), ShowsOffset(t.ofs, forceOffset)))

\* for _, l := range d.labelIter.Labels { fmt.Fprintf(d.w, ":%s\n", l) }
RECURSIVE WriteLabelLines(_, _)
WriteLabelLines(d, ls) ==
    IF ls = <<>> THEN d
    ELSE WriteLabelLines(
             WriterWrite(d, LabelLine(Head(ls)), Logged("label", d.data.ofs, 0, FALSE)),
             Tail(ls))

\* Dumper.writeLabelsIfNeeded
WriteLabelsIfNeeded(d) ==
    IF d.data.ofs = d.labelIter.Ofs
    THEN [WriteLabelLines(d, d.labelIter.Labels) EXCEPT !.labelIter = IterNext(d.labelIter)]
    ELSE d

\* wrapUp as it would be if it flushed buffered bytes only and forgot the line
\* still owed after a line written without its offset.
WrapUpDataOnly(d) ==
    IF d.data.have > 0
    THEN WriteLine(WriteLabelsIfNeeded(d), TRUE)
    ELSE d

\* Dumper.wrapUp
WrapUp(d) ==
    IF d.writePending \/ d.data.have > 0
    THEN WriteLine(WriteLabelsIfNeeded(d), TRUE)
    ELSE d

\* Dumper.honorSeekIfNeeded
HonorSeekIfNeeded(d) ==
    IF d.data.ofs # d.nextOff
    THEN With(WrapUp(d), LAMBDA d1 :
         With(IF d1.wroteAnything
              THEN WriterWrite(d1, <<NL>>, Logged("blank", d1.nextOff, 0, FALSE))
              ELSE d1,
              LAMBDA d2 :
         With(BufSet(d2.data, d2.nextOff), LAMBDA s :
             IF s.panic
             THEN [d2 EXCEPT !.panicked = TRUE]
             ELSE [d2 EXCEPT !.data = s.b,
                             !.labelIter = LabelsIter(d2.labels, d2.nextOff)])))
    ELSE d

\* The row as it would be if every line aimed at sixteen bytes.
RowWantFull(d) == RowLen

\* want := 0x10 - int(d.data.ofs%0x10): what is left of the row the line is in.
RowWant(d) == RowLen - (d.data.ofs % RowLen)

\* The loop of Dumper.Write, from n bytes of p consumed.
RECURSIVE WriteLoop(_, _, _)
WriteLoop(d, p, n) ==
    IF ~(n < Len(p)) THEN d
    ELSE LET row  == RowWant(d)
             want == IF d.labelIter.Ofs > 0 /\ d.data.ofs + row > d.labelIter.Ofs
                     THEN d.labelIter.Ofs - d.data.ofs
                     ELSE row
         IN  With(BufFill(d.data, SubSeq(p, n + 1, Len(p)), want), LAMBDA f :
             With([d EXCEPT !.data = f.b], LAMBDA d1 :
                 IF f.panic THEN [d EXCEPT !.panicked = TRUE]
                 ELSE IF d1.data.have = want
                 THEN With(WriteLabelsIfNeeded(
                             [d1 EXCEPT !.writePending = (d1.data.ofs % RowLen > 0)]),
                           LAMBDA d2 :
                      With(IF d2.data.have > 0 THEN WriteLine(d2, FALSE) ELSE d2,
                           LAMBDA d3 :
                          WriteLoop([d3 EXCEPT !.wroteAnything = TRUE], p, n + f.n)))
                 ELSE WriteLoop(d1, p, n + f.n)))

\* Write as it would be if it did not mark that a Write occurred.
DumperWriteUnmarked(d, p) ==
    With(HonorSeekIfNeeded(d), LAMBDA d1 :
        IF d1.panicked THEN d1
        ELSE WriteLoop(d1, p, 0))

\* Dumper.Write: the Dumper after the call.  It returns len(p) and a nil error.
DumperWrite(d, p) ==
    With(HonorSeekIfNeeded(d), LAMBDA d1 :
        IF d1.panicked THEN d1
        ELSE WriteLoop([d1 EXCEPT !.writePending = TRUE], p, 0))

SeekStart == 0
SeekCurrent == 1
SeekEnd == 2

\* Seek as it would be if it recorded the target before rejecting a negative one.
DumperSeekUnchecked(d, ofs, whence) ==
    IF whence \notin {SeekStart, SeekCurrent, SeekEnd}
    THEN [d |-> d, n |-> d.data.ofs, err |-> "invalid whence"]
    ELSE LET abs == IF whence = SeekStart THEN ofs ELSE ofs + d.data.ofs + d.data.have
         IN  IF abs < 0
             THEN [d |-> [d EXCEPT !.nextOff = abs], n |-> d.data.ofs,
                   err |-> "seek offset must not be negative"]
             ELSE [d |-> [d EXCEPT !.nextOff = abs], n |-> abs, err |-> "nil"]

\* Seek as it would be if it moved the Dumper to the target at once, flushing
\* what is buffered, and not at the next Write.
DumperSeekEager(d, ofs, whence) ==
    IF whence \notin {SeekStart, SeekCurrent, SeekEnd}
    THEN [d |-> d, n |-> d.data.ofs, err |-> "invalid whence"]
    ELSE LET abs == IF whence = SeekStart THEN ofs ELSE ofs + d.data.ofs + d.data.have
         IN  IF abs < 0
             THEN [d |-> d, n |-> d.data.ofs, err |-> "seek offset must not be negative"]
             ELSE [d |-> HonorSeekIfNeeded([d EXCEPT !.nextOff = abs]), n |-> abs,
                   err |-> "nil"]

\* Dumper.Seek: the Dumper after the call and what the call returns.
DumperSeek(d, ofs, whence) ==
    IF whence \notin {SeekStart, SeekCurrent, SeekEnd}
    THEN [d |-> d, n |-> d.data.ofs, err |-> "invalid whence"]
    ELSE LET abs == IF whence = SeekStart THEN ofs ELSE ofs + d.data.ofs + d.data.have
         IN  IF abs < 0
             THEN [d |-> d, n |-> d.data.ofs, err |-> "seek offset must not be negative"]
             ELSE [d |-> [d EXCEPT !.nextOff = abs], n |-> abs, err |-> "nil"]

\* Dumper.Close
DumperClose(d) ==
    With(WrapUp(d), LAMBDA d1 :
        [(IF d1.wroteAnything THEN WriteLabelsIfNeeded(d1) ELSE d1) EXCEPT !.closed = TRUE])

\* Dump: io.Copy from a bytes.Buffer makes one Write of all of data, and none
\* when data is empty.
Dump(data, offset, labels) ==
    With(DumperSeek(NewDumper(labels), offset, SeekStart).d, LAMBDA d1 :
        DumperClose(IF Len(data) > 0 THEN DumperWrite(d1, data) ELSE d1).w)

(***************************************************************************)
(* The Dumper's caller.  Every byte the caller writes is different, so a   *)
(* byte found in the output names the Write that passed it.                *)
(***************************************************************************)
NameA == <<97>>
NameB == <<98>>

\* The label tables a Dumper is constructed with (the first is no labels).
LabelMaps ==
    { <<>>,
      [n \in {NameA, NameB} |-> 2],
      [n \in {NameA, NameB} |-> IF n = NameA THEN 0 ELSE 16],
      [n \in {NameA, NameB} |-> IF n = NameA THEN 0 ELSE 1] }

\* The arguments the caller passes to Seek: <<ofs, whence>>.
SeekArgs ==
    { <<1, SeekStart>>, <<2, SeekStart>>, <<15, SeekStart>>, <<0, SeekCurrent>>,
      <<-20, SeekEnd>>, <<0, 3>> }

\* The k-th byte (from 0) a caller writes: a letter, a bar, a control character,
\* a two-byte rune, then letters.
ByteVal(k) == IF k < 4 THEN <<65, 124, 7, 200>>[k + 1] ELSE 70 + k

RECURSIVE BytesWritten(_)
BytesWritten(cs) ==
    IF cs = <<>> THEN 0
    ELSE BytesWritten(SubSeq(cs, 1, Len(cs) - 1))
         + (IF cs[Len(cs)].op = "Write" THEN Len(cs[Len(cs)].p) ELSE 0)

\* The caller's cursor: the target of the most recent successful Seek (0 if there
\* was none) plus the number of bytes written since.
RECURSIVE Cursor(_)
Cursor(cs) ==
    IF cs = <<>> THEN 0
    ELSE LET c == cs[Len(cs)]
             before == SubSeq(cs, 1, Len(cs) - 1)
         IN  IF c.op = "Seek" /\ c.err = "nil" THEN c.n
             ELSE IF c.op = "Write" THEN Cursor(before) + Len(c.p)
             ELSE Cursor(before)

NumOps(cs) == Cardinality({i \in DOMAIN cs : cs[i].op \in {"Write", "Seek"}})

Call(op, p, at, ofs, whence, n, err) ==
    [op |-> op, p |-> p, at |-> at, ofs |-> ofs, whence |-> whence, n |-> n, err |-> err]

\* The Decoder's variables while only a Dumper is exercised.
Idle == [kind |-> "idle"]

InitEnc ==
    /\ \E lmap \in LabelMaps : dmp = NewDumper(NewLabels(lmap))
    /\ calls = <<>>
    /\ input = <<>>
    /\ origin = Idle
    /\ dec = Idle
    /\ trace = Idle

Write(len) ==
    /\ ~dmp.panicked
    /\ NumOps(calls) < MaxOps
    /\ LET k == BytesWritten(calls)
           p == [i \in 1..len |-> ByteVal(k + i - 1)]
       IN  /\ dmp' = DumperWrite(dmp, p)
           /\ calls' = Append(calls, Call("Write", p, Cursor(calls), 0, 0, len, "nil"))
    /\ UNCHANGED decVars

Seek(ofs, whence) ==
    /\ ~dmp.panicked
    /\ NumOps(calls) < MaxOps
    /\ With(DumperSeek(dmp, ofs, whence), LAMBDA r :
           /\ dmp' = r.d
           /\ calls' = Append(calls,
                              Call("Seek", <<>>, Cursor(calls), ofs, whence, r.n, r.err)))
    /\ UNCHANGED decVars

Close ==
    /\ ~dmp.panicked
    /\ ~dmp.closed
    /\ dmp' = DumperClose(dmp)
    /\ calls' = Append(calls, Call("Close", <<>>, Cursor(calls), 0, 0, 0, "nil"))
    /\ UNCHANGED decVars

NextEnc ==
    \/ \E len \in 0..MaxWriteLen : Write(len)
    \/ \E a \in SeekArgs : Seek(a[1], a[2])
    \/ Close

SpecEnc == InitEnc /\ [][NextEnc]_vars

(***************************************************************************)
(* The scanner.  A scanner value is the line being scanned, the 0-based    *)
(* position off in it, the character ch there and the eol flag.  Errors    *)
(* are strings, "nil" for no error.                                        *)
(***************************************************************************)
isHex(b) == (b >= 48 /\ b <= 57) \/ (b >= 65 /\ b <= 70)

isLabel(b, notFirst) ==
    \/ b >= 65 /\ b <= 90
    \/ b >= 97 /\ b <= 122
    \/ b = 95
    \/ b = HYPHEN
    \/ notFirst /\ b >= 48 /\ b <= 57

\* scanner.next
ScanNext(s) ==
    IF s.off < Len(s.line) - 1
    THEN [s EXCEPT !.off = s.off + 1,
                   !.ch  = At(s.line, s.off + 1),
                   !.eol = (At(s.line, s.off + 1) = NL)]
    ELSE [s EXCEPT !.ch = 0, !.eol = TRUE]

\* scanner.rewind, for i >= 0 (the only values the scanner passes).
ScanRewind(s, i) ==
    IF i > 0 /\ i = s.off THEN s
    ELSE ScanNext([s EXCEPT !.off = i - 1, !.eol = FALSE])

RECURSIVE SkipWhileHex(_)
SkipWhileHex(s) == IF isHex(s.ch) THEN SkipWhileHex(ScanNext(s)) ELSE s

\* scanner.skipSpaces
RECURSIVE skipSpaces(_)
skipSpaces(s) == IF s.ch = SP THEN skipSpaces(ScanNext(s)) ELSE s

\* scanner.skipSpacesOrHyphen
RECURSIVE skipSpacesOrHyphen(_)
skipSpacesOrHyphen(s) ==
    IF s.ch = SP \/ s.ch = HYPHEN THEN skipSpacesOrHyphen(ScanNext(s)) ELSE s

\* scanner.skipComment
skipComment(s) == IF s.ch = HASH THEN [s EXCEPT !.eol = TRUE] ELSE s

HexVal(c) == IF c <= 57 THEN c - 48 ELSE c - 55

\* encoding/hex.Decode(dst, src) for src made of hexadecimal digits only, dst of
\* length dstLen: the pairs are decoded in order, writing past dst panics, and an
\* odd digit left over is ErrLength.
HexDecode(dstLen, src) ==
    LET pairs == Len(src) \div 2
    IN  IF pairs > dstLen
        THEN [n |-> dstLen, bytes |-> <<>>, err |-> "nil", panic |-> TRUE]
        ELSE [n     |-> pairs,
              bytes |-> [i \in 1..pairs |-> 16 * HexVal(src[2 * i - 1]) + HexVal(src[2 * i])],
              err   |-> IF Len(src) % 2 = 1 THEN "ErrLength" ELSE "nil",
              panic |-> FALSE]

\* decodeHexBytes without the rewind to the end of the decoded pairs and without
\* hex.Decode's error: a digit left over is skipped.
decodeHexBytesNoRewind(s, bufLen) ==
    With(SkipWhileHex(s), LAMBDA s1 :
    With(HexDecode(bufLen, Slice(s1.line, s.off, s1.off)), LAMBDA h :
        IF h.panic
        THEN [s |-> s1, n |-> 0, bytes |-> <<>>, err |-> "nil", panic |-> TRUE]
        ELSE [s     |-> s1,
              n     |-> h.n,
              bytes |-> h.bytes,
              err   |-> IF ~s1.eol /\ s1.ch # SP /\ s1.ch # HYPHEN
                        THEN "illegal character"
                        ELSE "nil",
              panic |-> FALSE]))

\* scanner.decodeHexBytes(buf) with len(buf) = bufLen
decodeHexBytes(s, bufLen) ==
    With(SkipWhileHex(s), LAMBDA s1 :
    With(HexDecode(bufLen, Slice(s1.line, s.off, s1.off)), LAMBDA h :
    With(ScanRewind(s1, s.off + h.n * 2), LAMBDA s2 :
        IF h.panic
        THEN [s |-> s1, n |-> 0, bytes |-> <<>>, err |-> "nil", panic |-> TRUE]
        ELSE [s     |-> s2,
              n     |-> h.n,
              bytes |-> h.bytes,
              err   |-> IF isHex(s2.ch) THEN "too many characters"
                        ELSE IF ~s2.eol /\ s2.ch # SP /\ s2.ch # HYPHEN
                        THEN "illegal character"
                        ELSE h.err,
              panic |-> FALSE])))

\* binary.BigEndian.Uint64(rightAlign(data)) for data of at most 8 bytes.
RECURSIVE BigEndian(_)
BigEndian(bytes) ==
    IF bytes = <<>> THEN 0
    ELSE 256 * BigEndian(SubSeq(bytes, 1, Len(bytes) - 1)) + bytes[Len(bytes)]

\* scanner.decodeOffset: int64 of eight bytes is negative when bit 63 is set.
decodeOffset(s) ==
    With(decodeHexBytes(s, 8), LAMBDA r :
        IF r.panic
        THEN [s |-> r.s, offset |-> 0, hasOffset |-> FALSE, err |-> "nil", panic |-> TRUE]
        ELSE IF r.err # "nil"
        THEN [s |-> r.s, offset |-> 0, hasOffset |-> FALSE, err |-> r.err, panic |-> FALSE]
        ELSE IF r.n = 8 /\ r.bytes[1] >= 128
        THEN [s |-> r.s, offset |-> 0, hasOffset |-> FALSE, err |-> "offset too large",
              panic |-> FALSE]
        ELSE [s |-> r.s, offset |-> BigEndian(r.bytes), hasOffset |-> TRUE, err |-> "nil",
              panic |-> FALSE])

RECURSIVE SkipWhileLabel(_, _)
SkipWhileLabel(s, notFirst) ==
    IF isLabel(s.ch, notFirst) THEN SkipWhileLabel(ScanNext(s), notFirst) ELSE s

\* scanner.decodeLabel: notFirst is declared and never set.
decodeLabel(s) ==
    With(SkipWhileLabel(s, FALSE), LAMBDA s1 :
        [label |-> Slice(s1.line, s.off, s1.off),
         err   |-> IF ~skipComment(skipSpaces(s1)).eol
                   THEN "illegal text after label" ELSE "nil"])

Rec(offset, hasOffset, data, label, err, panic) ==
    [offset |-> offset, hasOffset |-> hasOffset, data |-> data, label |-> label,
     err |-> err, panic |-> panic]

\* The loop of scanLine that fills data, from index i of the 16-byte buffer.
RECURSIVE ScanData(_, _, _)
ScanData(s, i, data) ==
    IF ~(i < RowLen)
    THEN [data |-> data, err |-> "nil", panic |-> TRUE]   \* data[:17] of 16 bytes
    ELSE With(decodeHexBytes(s, 1), LAMBDA r :
             IF r.panic THEN [data |-> data, err |-> "nil", panic |-> TRUE]
             ELSE IF r.err # "nil"
             THEN [data  |-> data \o r.bytes \o Repeat(0, RowLen - Len(data) - Len(r.bytes)),
                   err   |-> r.err,
                   panic |-> FALSE]
             ELSE With(skipSpacesOrHyphen(r.s), LAMBDA s1 :
                      IF ~isHex(s1.ch)
                      THEN [data |-> data \o r.bytes, err |-> "nil", panic |-> FALSE]
                      ELSE ScanData(s1, i + 1, data \o r.bytes)))

\* scanner.scanLine, from the scanner as rewind(0) leaves it.
scanLine(s) ==
    With(IF isHex(s.ch) THEN decodeOffset(s)
         ELSE [s |-> s, offset |-> 0, hasOffset |-> FALSE, err |-> "nil", panic |-> FALSE],
         LAMBDA o :
        IF o.panic THEN Rec(0, FALSE, <<>>, <<>>, "nil", TRUE)
        ELSE IF o.err # "nil" THEN Rec(0, FALSE, <<>>, <<>>, o.err, FALSE)
        ELSE IF ~isHex(s.ch) /\ s.ch = COLON
        THEN With(decodeLabel(ScanNext(s)), LAMBDA l :
                 Rec(0, FALSE, <<>>, l.label, l.err, FALSE))
        ELSE With(skipSpacesOrHyphen(o.s), LAMBDA s1 :
                 IF isHex(s1.ch)
                 THEN With(ScanData(s1, 0, <<>>), LAMBDA r :
                          Rec(o.offset, o.hasOffset, r.data, <<>>, r.err, r.panic))
                 ELSE Rec(o.offset, o.hasOffset, <<>>, <<>>, "nil", FALSE)))

\* decodeLine as it would be if a line of nothing but the newline were taken
\* for the end of the input.
decodeLineBlankEnds(text, rd) ==
    IF rd >= Len(text) \/ text[rd + 1] = <<NL>>
    THEN Rec(0, FALSE, <<>>, <<>>, "EOF", FALSE)
    ELSE scanLine(ScanRewind([line |-> text[rd + 1], off |-> 0, ch |-> 0, eol |-> FALSE], 0))

\* scanner.decodeLine with the reader at line rd (from 0) of text: ReadBytes gives
\* the next line, and io.EOF with it when the text ends without a newline.
decodeLine(text, rd) ==
    IF rd >= Len(text)
    THEN Rec(0, FALSE, <<>>, <<>>, "EOF", FALSE)
    ELSE scanLine(ScanRewind([line |-> text[rd + 1], off |-> 0, ch |-> 0, eol |-> FALSE], 0))

(***************************************************************************)
(* Decoder.  rd is the position of the scanner's reader in the text, in    *)
(* lines.  Beside what the code returns, nextContiguous reports what it    *)
(* did with each line it scanned (ev), for the properties to refer to:     *)
(* the line, what became of it, the run start pendOfs it computed and the  *)
(* position readyOfs + len(data) it compared pendOfs with.                 *)
(***************************************************************************)
NewDecoder ==
    [err        |-> "nil",
     labels     |-> ZeroLabels,
     started    |-> FALSE,
     readyOfs   |-> 0,
     data       |-> <<>>,
     nextData   |-> <<>>,
     nextOffset |-> 0,
     rd         |-> 0,
     panicked   |-> FALSE]

Event(line, what, pendOfs, pos, held) ==
    [line |-> line, what |-> what, pendOfs |-> pendOfs, pos |-> pos, held |-> held]

\* for len(resolv) > 0 { d.labels.Set(resolv[0].label, int64(resolv[0].rel)+pendOfs) ... }
RECURSIVE ResolveLabels(_, _, _)
ResolveLabels(labels, resolv, pendOfs) ==
    IF resolv = <<>> THEN labels
    ELSE ResolveLabels(LabelsSet(labels, Head(resolv).label, Head(resolv).rel + pendOfs),
                       Tail(resolv), pendOfs)

\* What a label line records as its position relative to the run start.
LabelRel(d, pending) == Len(d.data)

\* The rewind test as it would be if run starts were never compared with the
\* position delivered.
IsRewindNever(pendOfs, pos) == FALSE

\* pendOfs is before the position delivered so far.
IsRewind(pendOfs, pos) == pendOfs < pos

\* The gap test as it would be with >= for >.
IsGapOrEqual(pendOfs, pos) == pendOfs >= pos

\* pendOfs is after the position delivered so far.
IsGap(pendOfs, pos) == pendOfs > pos

\* The loop of Decoder.nextContiguous.
RECURSIVE ContiguousLoop(_, _, _, _, _)
ContiguousLoop(d, text, pending, resolv, ev) ==
    With(decodeLine(text, d.rd), LAMBDA r :
    With(IF d.rd < Len(text) THEN [d EXCEPT !.rd = d.rd + 1] ELSE d, LAMBDA d1 :
    With(d.readyOfs + Len(d.data), LAMBDA pos :
        IF r.panic
        THEN [d |-> [d1 EXCEPT !.panicked = TRUE], data |-> <<>>, err |-> "nil", ev |-> ev]
        ELSE IF r.err # "nil"
        THEN IF Len(pending) > 0
             THEN [d |-> d1, data |-> pending, err |-> "nil",
                   ev |-> IF r.err = "EOF" THEN ev
                          ELSE Append(ev, Event(d1.rd, "dropped", 0, pos, Len(pending)))]
             ELSE [d |-> d1, data |-> <<>>, err |-> r.err,
                   ev |-> IF r.err = "EOF" THEN ev
                          ELSE Append(ev, Event(d1.rd, "error", 0, pos, 0))]
        ELSE IF r.label # <<>>
        THEN ContiguousLoop(d1, text, pending,
                            Append(resolv, [label |-> r.label, rel |-> LabelRel(d, pending)]),
                            Append(ev, Event(d1.rd, "label", 0, pos, Len(pending))))
        ELSE IF r.hasOffset
        THEN With(r.offset - Len(pending), LAMBDA pendOfs :
             With([d1 EXCEPT !.labels = ResolveLabels(d1.labels, resolv, pendOfs)],
                  LAMBDA d2 :
                 IF IsRewind(pendOfs, pos)
                 THEN [d |-> d2, data |-> <<>>, err |-> "rewind",
                       ev |-> Append(ev, Event(d1.rd, "rewind", pendOfs, pos, Len(pending)))]
                 ELSE IF ~d2.started \/ IsGap(pendOfs, pos)
                 THEN [d    |-> [d2 EXCEPT !.nextData = pending \o r.data,
                                           !.nextOffset = pendOfs],
                       data |-> <<>>, err |-> "nil",
                       ev   |-> Append(ev, Event(d1.rd, "gap", pendOfs, pos, Len(pending)))]
                 ELSE IF Len(pending \o r.data) = 0
                 THEN ContiguousLoop([d2 EXCEPT !.readyOfs = pendOfs], text, pending, <<>>,
                          Append(ev, Event(d1.rd, "contiguous", pendOfs, pos, Len(pending))))
                 ELSE [d    |-> [d2 EXCEPT !.readyOfs = pendOfs],
                       data |-> pending \o r.data, err |-> "nil",
                       ev   |-> Append(ev, Event(d1.rd, "contiguous", pendOfs, pos,
                                                 Len(pending)))]))
        ELSE ContiguousLoop(d1, text, pending \o r.data, resolv,
                            Append(ev, Event(d1.rd, IF r.data = <<>> THEN "noop" ELSE "pending",
                                             0, pos, Len(pending)))))))

\* Decoder.nextContiguous
nextContiguous(d, text) ==
    ContiguousLoop([d EXCEPT !.started = TRUE], text, <<>>, <<>>, <<>>)

\* The loop of Read as it would be if the bytes of d.data that do not fit in the
\* buffer were dropped instead of kept for the next call.
RECURSIVE ReadLoopDroppingRest(_, _, _, _, _, _)
ReadLoopDroppingRest(d, text, pLen, got, err, ev) ==
    IF ~(Len(got) < pLen /\ err = "nil")
    THEN [d |-> d, got |-> got, err |-> err, ev |-> ev]
    ELSE IF Len(d.data) > 0
    THEN LET nn == Min(pLen - Len(got), Len(d.data))
         IN  ReadLoopDroppingRest([d EXCEPT !.data = <<>>,
                                            !.readyOfs = d.readyOfs + nn],
                                  text, pLen, got \o SubSeq(d.data, 1, nn), err, ev)
    ELSE With(nextContiguous(d, text), LAMBDA r :
             IF r.d.panicked
             THEN [d |-> r.d, got |-> got, err |-> "nil", ev |-> ev \o r.ev]
             ELSE ReadLoopDroppingRest(
                      [r.d EXCEPT !.data = r.data,
                                  !.err = IF r.err # "nil" THEN r.err ELSE r.d.err],
                      text, pLen, got,
                      IF r.data = <<>> /\ r.err = "nil" THEN "EOF" ELSE r.err,
                      ev \o r.ev))

\* The loop of Decoder.Read into a buffer of pLen bytes, n of them filled with got.
RECURSIVE ReadLoop(_, _, _, _, _, _)
ReadLoop(d, text, pLen, got, err, ev) ==
    IF ~(Len(got) < pLen /\ err = "nil")
    THEN [d |-> d, got |-> got, err |-> err, ev |-> ev]
    ELSE IF Len(d.data) > 0
    THEN LET nn == Min(pLen - Len(got), Len(d.data))
         IN  ReadLoop([d EXCEPT !.data = SubSeq(d.data, nn + 1, Len(d.data)),
                                !.readyOfs = d.readyOfs + nn],
                      text, pLen, got \o SubSeq(d.data, 1, nn), err, ev)
    ELSE With(nextContiguous(d, text), LAMBDA r :
             IF r.d.panicked
             THEN [d |-> r.d, got |-> got, err |-> "nil", ev |-> ev \o r.ev]
             ELSE ReadLoop([r.d EXCEPT !.data = r.data,
                                       !.err = IF r.err # "nil" THEN r.err ELSE r.d.err],
                           text, pLen, got,
                           IF r.data = <<>> /\ r.err = "nil" THEN "EOF" ELSE r.err,
                           ev \o r.ev))

\* Decoder.Read(p) with len(p) = pLen: the Decoder after the call, the bytes put
\* in p and the error returned.  Read panics when it would return 0, nil.
DecoderRead(d, text, pLen) ==
    IF d.nextOffset > 0
    THEN [d |-> d, got |-> <<>>, err |-> "EOF", ev |-> <<>>]
    ELSE With(ReadLoop(d, text, pLen, <<>>, "nil", <<>>), LAMBDA r :
             IF ~r.d.panicked /\ Len(r.got) = 0 /\ r.err = "nil"
             THEN [r EXCEPT !.d.panicked = TRUE]
             ELSE r)

\* The buffer io.Copy reads into on behalf of ioutil.Discard.
DiscardBufLen == 8192

\* io.Copy(ioutil.Discard, d): Read until an error; io.EOF is not reported.
RECURSIVE CopyDiscard(_, _, _)
CopyDiscard(d, text, ev) ==
    With(DecoderRead(d, text, DiscardBufLen), LAMBDA r :
        IF r.d.panicked \/ r.err # "nil"
        THEN [d |-> r.d, err |-> IF r.err = "EOF" THEN "nil" ELSE r.err, ev |-> ev \o r.ev]
        ELSE CopyDiscard(r.d, text, ev \o r.ev))

\* The end of Next as it would be if skipped were the new offset itself, not its
\* distance from the old one.
AdvanceAbsolute(d, ev) ==
    [d       |-> [d EXCEPT !.data = d.nextData,
                           !.readyOfs = d.nextOffset,
                           !.nextData = <<>>,
                           !.nextOffset = 0],
     skipped |-> d.nextOffset,
     err     |-> "nil",
     ev      |-> ev]

\* The end of Decoder.Next: the next segment becomes the current one.
Advance(d, ev) ==
    [d       |-> [d EXCEPT !.data = d.nextData,
                           !.readyOfs = d.nextOffset,
                           !.nextData = <<>>,
                           !.nextOffset = 0],
     skipped |-> d.nextOffset - d.readyOfs,
     err     |-> "nil",
     ev      |-> ev]

\* Decoder.Next once the first nextContiguous, if any, has been made.
NextStarted(d, text, ev) ==
    IF d.err # "nil"
    THEN [d |-> d, skipped |-> 0, err |-> d.err, ev |-> ev]
    ELSE IF d.nextData = <<>> /\ d.nextOffset = 0
    THEN With(CopyDiscard(d, text, ev), LAMBDA c :
             IF c.d.panicked \/ c.err # "nil"
             THEN [d |-> c.d, skipped |-> 0, err |-> c.err, ev |-> c.ev]
             ELSE Advance(c.d, c.ev))
    ELSE Advance(d, ev)

\* Decoder.Next
DecoderNext(d, text) ==
    IF ~d.started
    THEN With(nextContiguous(d, text), LAMBDA r :
             IF r.d.panicked \/ r.err # "nil"
             THEN [d |-> r.d, skipped |-> 0, err |-> r.err, ev |-> r.ev]
             ELSE NextStarted(r.d, text, r.ev))
    ELSE NextStarted(d, text, <<>>)

(***************************************************************************)
(* The Decoder's caller and its input.  A hand-built input is a sequence   *)
(* of lines of the shapes the tests use, every data byte different; the    *)
(* other inputs are what Dump writes.                                      *)
(***************************************************************************)
\* The offsets hand-built lines carry.
InOffsets == {0, 2, 5}

LineShapes ==
    {[k |-> "ofs", ofs |-> o, n |-> n] : o \in InOffsets, n \in {0, 2}}
    \cup {[k |-> "omit", ofs |-> 0, n |-> 1],     \* data without an offset
          [k |-> "label", ofs |-> 0, n |-> 0],    \* :a
          [k |-> "blank", ofs |-> 0, n |-> 0],    \* an empty line
          [k |-> "bad", ofs |-> 0, n |-> 0]}      \* an offset of three digits

\* Byte j (from 0) of line i (from 1) of a hand-built input.
InByte(i, j) == 16 * i + j

HexBytes(bs) == Flatten([j \in 1..Len(bs) |-> FmtHex(bs[j], 2) \o <<SP>>])

\* The text of line i of a hand-built input.
HandLine(sh, i) ==
    LET bs == [j \in 1..sh.n |-> InByte(i, j - 1)]
    IN  CASE sh.k = "ofs"   -> FmtHex(sh.ofs, 4) \o <<SP, SP>> \o HexBytes(bs) \o <<NL>>
          [] sh.k = "omit"  -> Repeat(SP, 6) \o HexBytes(bs) \o <<NL>>
          [] sh.k = "label" -> LabelLine(NameA)
          [] sh.k = "blank" -> <<NL>>
          [] sh.k = "bad"   -> <<48, 49, 50, NL>>
          [] sh.k = "comment" -> <<HASH, SP, 99, NL>>

HandText(shapes) == [i \in 1..Len(shapes) |-> HandLine(shapes[i], i)]

ShapeSeqs == UNION {[1..n -> LineShapes] : n \in 0..MaxLines}

\* The buffer lengths the caller passes to Read.
ReadLens == {1, 4}

NoCall == [op |-> "none", n |-> 0, err |-> "nil", skipped |-> 0, gap |-> FALSE, ev |-> <<>>]

\* What the caller has seen: the bytes Read returned, each with the position the
\* caller computes for it (bytes returned so far plus the skips Next returned so
\* far), the offset the Decoder held it at, the number of Next calls that returned
\* nil before it (seg) and whether a Next call was made since the byte before it
\* (fresh); the last call's result; the lines scanned so far; and whether the
\* caller has so far read every segment to io.EOF before calling Next.
NewTrace ==
    [delivered |-> <<>>, total |-> 0, skips |-> 0, nexts |-> 0, since |-> FALSE,
     last |-> NoCall, ev |-> <<>>, proto |-> TRUE]

\* The lines a call scanned, marked with the number of successful Next calls
\* before that call.
Seen(ev, seg) ==
    [i \in 1..Len(ev) |->
        [line |-> ev[i].line, what |-> ev[i].what, pendOfs |-> ev[i].pendOfs,
         pos |-> ev[i].pos, held |-> ev[i].held, seg |-> seg]]

\* The Dumper's variables while only a Decoder is exercised.
InitDecoder(text, from) ==
    /\ input = text
    /\ origin = from
    /\ dec = NewDecoder
    /\ trace = NewTrace
    /\ dmp = Idle
    /\ calls = Idle

InitDec ==
    \E shapes \in ShapeSeqs :
        InitDecoder(HandText(shapes), [kind |-> "lines", shapes |-> shapes])

Read(pLen) ==
    /\ ~dec.panicked
    /\ With(DecoderRead(dec, input, pLen), LAMBDA r :
           /\ dec' = r.d
           /\ trace' = [trace EXCEPT
                  !.delivered = trace.delivered \o
                      [j \in 1..Len(r.got) |->
                          [b   |-> r.got[j],
                           pos |-> trace.total + trace.skips + j - 1,
                           ofs |-> r.d.readyOfs - Len(r.got) + j - 1,
                           seg |-> trace.nexts,
                           fresh |-> (j = 1 /\ trace.since)]],
                  !.since = trace.since /\ r.got = <<>>,
                  !.total = trace.total + Len(r.got),
                  !.last = [op |-> "Read", n |-> Len(r.got), err |-> r.err, skipped |-> 0,
                            gap |-> dec.nextOffset > 0, ev |-> r.ev],
                  !.ev = trace.ev \o Seen(r.ev, trace.nexts)])
    /\ UNCHANGED <<input, origin, encVars>>

Next ==
    /\ ~dec.panicked
    /\ With(DecoderNext(dec, input), LAMBDA r :
           /\ dec' = r.d
           /\ trace' = [trace EXCEPT
                  !.skips = trace.skips + r.skipped,
                  !.nexts = trace.nexts + (IF r.err = "nil" /\ ~r.d.panicked THEN 1 ELSE 0),
                  !.since = TRUE,
                  !.last = [op |-> "Next", n |-> 0, err |-> r.err, skipped |-> r.skipped,
                            gap |-> dec.nextOffset > 0, ev |-> r.ev],
                  !.ev = trace.ev \o Seen(r.ev, trace.nexts),
                  !.proto = trace.proto /\ trace.last.op = "Read" /\ trace.last.err = "EOF"])
    /\ UNCHANGED <<input, origin, encVars>>

NextDec ==
    \/ \E pLen \in ReadLens : Read(pLen)
    \/ Next

SpecDec == InitDec /\ [][NextDec]_vars

(***************************************************************************)
(* The Decoder reading what Dump wrote: B of 1..MaxDumpLen different       *)
(* bytes, dumped from offset O with a label table L whose labels all       *)
(* address bytes of B (the Dumper writes no label elsewhere).              *)
(***************************************************************************)
DumpOffsets == {0, 1, 15}

DumpBytes(n) == [i \in 1..n |-> ByteVal(i - 1)]

DumpLabelMaps(O, n) == UNION {[S -> O..(O + n - 1)] : S \in SUBSET {NameA, NameB}}

InitRT ==
    \E n \in 1..MaxDumpLen, O \in DumpOffsets :
        \E lmap \in DumpLabelMaps(O, n) :
            InitDecoder(Dump(DumpBytes(n), O, NewLabels(lmap)),
                        [kind |-> "dump", B |-> DumpBytes(n), O |-> O, L |-> lmap])

SpecRT == InitRT /\ [][NextDec]_vars

(***************************************************************************)
(* What a text says, read line by line without a Decoder: the offset each  *)
(* data line's bytes are at.  recs is the scanner's record of each line.   *)
(***************************************************************************)
Recs(text) == [i \in 1..Len(text) |-> decodeLine(text, i - 1)]

\* The first line from line i on that carries an offset, 0 if there is none.
AnchorOf(recs, i) ==
    IF \E k \in i..Len(recs) : recs[k].hasOffset
    THEN CHOOSE k \in i..Len(recs) :
             recs[k].hasOffset /\ \A m \in i..(k - 1) : ~recs[m].hasOffset
    ELSE 0

\* The last line before line i that carries an offset, 0 if there is none.
AnchorBefore(recs, i) ==
    IF \E k \in 1..(i - 1) : recs[k].hasOffset
    THEN CHOOSE k \in 1..(i - 1) :
             recs[k].hasOffset /\ \A m \in (k + 1)..(i - 1) : ~recs[m].hasOffset
    ELSE 0

\* The number of data bytes on lines lo..hi.
RECURSIVE BytesOn(_, _, _)
BytesOn(recs, lo, hi) ==
    IF lo > hi THEN 0 ELSE Len(recs[lo].data) + BytesOn(recs, lo + 1, hi)

\* The offset the text assigns to byte j (from 0) of line i: the line's own offset
\* plus j, or the following anchor's offset less the offset-omitted bytes from
\* line i up to the anchor, plus j (-1 when no anchor follows).
TextOffset(recs, i, j) ==
    IF recs[i].hasOffset THEN recs[i].offset + j
    ELSE IF AnchorOf(recs, i) = 0 THEN -1
    ELSE recs[AnchorOf(recs, i)].offset
         - BytesOn(recs, i, AnchorOf(recs, i) - 1) + j

\* Where the run anchored by line k starts, and where the data of line k ends.
RunStart(recs, k) == recs[k].offset - BytesOn(recs, AnchorBefore(recs, k) + 1, k - 1)
RunEnd(recs, k) == recs[k].offset + Len(recs[k].data)

\* Every line scans without an error, every offset-omitted data line has an
\* anchor after it, and no run starts before the end of the run before it.
WellFormed(recs) ==
    /\ \A i \in DOMAIN recs : recs[i].err = "nil" /\ ~recs[i].panic
    /\ \A i \in DOMAIN recs :
           (recs[i].data # <<>> /\ ~recs[i].hasOffset) => AnchorOf(recs, i) # 0
    /\ \A k \in DOMAIN recs :
           recs[k].hasOffset =>
               RunStart(recs, k) >= (IF AnchorBefore(recs, k) = 0 THEN 0
                                     ELSE RunEnd(recs, AnchorBefore(recs, k)))

\* The line and the index in it of a byte of a hand-built input.
LineOf(b) == b \div 16
IndexOf(b) == b % 16

HandBuilt == origin.kind = "lines"

C7_CurrentSegmentOnly ==
    HandBuilt =>
        /\ (trace.last.op = "Read" /\ trace.last.gap) =>
               /\ trace.last.n = 0 /\ trace.last.err = "EOF" /\ trace.last.ev = <<>>
               /\ dec.nextOffset > 0
        /\ \A e \in Range(trace.ev) :
               e.what = "gap" =>
                   /\ e.pendOfs > e.pos
                   /\ \A x \in Range(trace.delivered) :
                          LineOf(x.b) = e.line => x.seg > e.seg
        /\ \A i \in 1..(Len(trace.delivered) - 1) :
               LET x == trace.delivered[i]
                   y == trace.delivered[i + 1]
               IN  /\ ~y.fresh => y.ofs = x.ofs + 1
                   /\ y.ofs = x.ofs + 1 => x.seg = y.seg

\* A second Read was made while a gap was pending, after bytes of two contiguous
\* lines had been delivered without a Next.
C7_Witness ==
    /\ HandBuilt
    /\ trace.last.op = "Read" /\ trace.last.gap
    /\ \E i \in 1..(Len(trace.delivered) - 1) :
           /\ LineOf(trace.delivered[i].b) # LineOf(trace.delivered[i + 1].b)
           /\ ~trace.delivered[i + 1].fresh

(***************************************************************************)
(* C8.  On a well-formed input, Next returns nil only when a segment       *)
(* followed and became current: every Next that returned nil took up a gap *)
(* that a scanned line opened.  Otherwise Next returns io.EOF.             *)
(***************************************************************************)
GapCount(ev) == Cardinality({i \in DOMAIN ev : ev[i].what = "gap"})

C8_NextNilOnlyIntoSegment ==
    (HandBuilt /\ WellFormed(Recs(input)) /\ trace.last.op = "Next") =>
        /\ trace.last.err = "nil" => trace.nexts <= GapCount(trace.ev)
        /\ trace.last.err # "nil" => trace.last.err = "EOF"

(***************************************************************************)
(* C9.  The skipped value Next returns is never negative.                  *)
(***************************************************************************)
C9_SkippedNotNegative ==
    (HandBuilt /\ trace.last.op = "Next") => trace.last.skipped >= 0

(***************************************************************************)
(* C10.  On a well-formed input, a label line scanned with k               *)
(* offset-omitted bytes pending is committed, when the run's anchor line   *)
(* is scanned, at pendOfs + k.  The anchor of a label line is the first    *)
(* offset-carrying line scanned after it in the same call; the table holds *)
(* what the last such label set.                                           *)
(***************************************************************************)
LabelAnchor(ev, i) ==
    IF \E j \in (i + 1)..Len(ev) :
           /\ ev[j].what \in {"rewind", "gap", "contiguous"}
           /\ \A m \in (i + 1)..(j - 1) : ev[m].what \in {"label", "noop", "pending"}
    THEN CHOOSE j \in (i + 1)..Len(ev) :
             /\ ev[j].what \in {"rewind", "gap", "contiguous"}
             /\ \A m \in (i + 1)..(j - 1) : ev[m].what \in {"label", "noop", "pending"}
    ELSE 0

Committed(ev) == {i \in DOMAIN ev : ev[i].what = "label" /\ LabelAnchor(ev, i) # 0}

C10_LabelAtPendOfsPlusK ==
    (HandBuilt /\ WellFormed(Recs(input))) =>
        \A i \in Committed(trace.ev) :
            (\A m \in Committed(trace.ev) : m <= i) =>
                /\ NameA \in DOMAIN dec.labels.lmap
                /\ dec.labels.lmap[NameA]
                     = trace.ev[LabelAnchor(trace.ev, i)].pendOfs + trace.ev[i].held

(***************************************************************************)
(* C1.  Round trip.  When a caller has read the text of Dump(B, O, L)      *)
(* segment by segment to the end of the input, the bytes it was given are  *)
(* those of B, at positions O, O+1, ..., and the Decoder's label table is  *)
(* L.                                                                      *)
(***************************************************************************)
C1_RoundTrip ==
    (origin.kind = "dump" /\ trace.proto
       /\ trace.last.op = "Next" /\ trace.last.err = "EOF") =>
        /\ [i \in 1..Len(trace.delivered) |-> trace.delivered[i].b] = origin.B
        /\ \A i \in DOMAIN trace.delivered : trace.delivered[i].pos = origin.O + i - 1
        /\ dec.labels.lmap = origin.L

(***************************************************************************)
(* The Dumper's output read back line by line.                             *)
(***************************************************************************)
Closed == dmp.closed /\ calls[Len(calls)].op = "Close"

\* The places <<line, index from 1>> where the text shows byte b.
Rendered(recs, b) ==
    {pl \in (DOMAIN recs) \X (1..RowLen) :
        pl[2] <= Len(recs[pl[1]].data) /\ recs[pl[1]].data[pl[2]] = b}

(***************************************************************************)
(* C2.  After Close, every byte passed to Write is in exactly one data     *)
(* line of the output, at the offset of the caller's cursor when it was    *)
(* written: the target of the last Seek plus the bytes written since.      *)
(***************************************************************************)
C2_BytesAtCursor ==
    Closed =>
        With(Recs(dmp.w), LAMBDA recs :
            \A c \in Range(calls) :
                c.op = "Write" =>
                    \A j \in 1..Len(c.p) :
                        /\ Cardinality(Rendered(recs, c.p[j])) = 1
                        /\ \A pl \in Rendered(recs, c.p[j]) :
                               TextOffset(recs, pl[1], pl[2] - 1) = c.at + j - 1)

(***************************************************************************)
(* C4.  Writes with no Seek between them give, after Close, the output of  *)
(* one Write of their bytes joined.                                        *)
(***************************************************************************)
\* cs is at most one Seek, then one or more Writes, then Close.
WritesThenClose(cs) ==
    /\ Len(cs) >= 2
    /\ cs[Len(cs)].op = "Close"
    /\ cs[1].op \in {"Seek", "Write"}
    /\ \A i \in 2..(Len(cs) - 1) : cs[i].op = "Write"
    /\ \E i \in 1..(Len(cs) - 1) : cs[i].op = "Write"

Joined(cs) == Flatten([i \in 1..Len(cs) |-> IF cs[i].op = "Write" THEN cs[i].p ELSE <<>>])

SingleWrite(labels, cs) ==
    DumperClose(
        DumperWrite(IF cs[1].op = "Seek"
                    THEN DumperSeek(NewDumper(labels), cs[1].ofs, cs[1].whence).d
                    ELSE NewDumper(labels),
                    Joined(cs))).w

C4_SplitWritesSameOutput ==
    (dmp.closed /\ WritesThenClose(calls)) => dmp.w = SingleWrite(dmp.labels, calls)

(***************************************************************************)
(* C5.  Anchoring.  Every data line written without its offset is followed *)
(* by a data line of the same run that shows its offset, before the blank  *)
(* line of the next honored seek; until that line is written no Close has  *)
(* returned since and the Dumper still owes it.                            *)
(***************************************************************************)
RECURSIVE DataOn(_, _, _)
DataOn(log, lo, hi) == IF lo > hi THEN 0 ELSE log[lo].n + DataOn(log, lo + 1, hi)

AnchoredAt(log, i, j) ==
    /\ log[j].kind = "data" /\ log[j].shown
    /\ \A m \in (i + 1)..j : log[m].kind # "blank"
    /\ log[j].ofs = log[i].ofs + DataOn(log, i, j - 1)

C5_Anchored ==
    \A i \in DOMAIN dmp.log :
        (dmp.log[i].kind = "data" /\ ~dmp.log[i].shown) =>
            \/ \E j \in (i + 1)..Len(dmp.log) : AnchoredAt(dmp.log, i, j)
            \/ /\ \A m \in (i + 1)..Len(dmp.log) : dmp.log[m].kind # "blank"
               /\ calls[Len(calls)].op # "Close"
               /\ dmp.writePending \/ dmp.data.have > 0

\* Close has returned after a line without its offset was written and a seek
\* was honored.
C5_Witness ==
    /\ Closed
    /\ \E i \in DOMAIN dmp.log :
           /\ dmp.log[i].kind = "data" /\ ~dmp.log[i].shown
           /\ \E m \in (i + 1)..Len(dmp.log) : dmp.log[m].kind = "blank"

(***************************************************************************)
(* The scanner on its own: one label line, of a name the label grammar     *)
(* [A-Za-z_-][A-Za-z0-9_-]* allows and a trailer a label line may end      *)
(* with, is handed to decodeLine.                                          *)
(***************************************************************************)
MaxNameLen == 2

\* A lower-case letter, an upper-case letter, the underscore, the hyphen, a digit.
NameChars == {97, 90, 95, HYPHEN, 49}

IsDigit(c) == c >= 48 /\ c <= 57

LabelNames ==
    {nm \in UNION {[1..n -> NameChars] : n \in 1..MaxNameLen} : ~IsDigit(nm[1])}

\* What may follow the name: nothing, blanks, a comment.
LabelTrailers == { <<>>, <<SP>>, <<SP, HASH, SP, 99>> }

Unscanned == [kind |-> "unscanned"]

InitScan ==
    /\ \E nm \in LabelNames, tr \in LabelTrailers :
           /\ input = << <<COLON>> \o nm \o tr \o <<NL>> >>
           /\ origin = [kind |-> "label", name |-> nm]
    /\ trace = Unscanned
    /\ dec = Idle
    /\ dmp = Idle
    /\ calls = Idle

ScanLabelLine ==
    /\ trace = Unscanned
    /\ trace' = [kind |-> "scanned", rec |-> decodeLine(input, 0)]
    /\ UNCHANGED <<input, origin, dec, encVars>>

SpecScan == InitScan /\ [][ScanLabelLine]_vars

(***************************************************************************)
(* C11.  The scanner accepts every label line whose name matches           *)
(* [A-Za-z_-][A-Za-z0-9_-]*, digits after the first character included,    *)
(* and returns the whole name as the line's label with no error.           *)
(***************************************************************************)
C11_LabelNamesAccepted ==
    trace # Unscanned =>
        /\ trace.rec.err = "nil"
        /\ trace.rec.label = origin.name

(***************************************************************************)
(* C12.  Every syntax error the scanner raises on a line is returned as    *)
(* the error of the Read or Next call that scanned the line, also when     *)
(* offset-omitted bytes are pending at that moment.                        *)
(***************************************************************************)
C12_ParseErrorsReturned ==
    HandBuilt =>
        \A i \in DOMAIN trace.last.ev :
            trace.last.ev[i].what \in {"dropped", "error"} =>
                trace.last.err \notin {"nil", "EOF", "rewind"}

(***************************************************************************)
(* C13.  Read returns no byte before an offset line that establishes the   *)
(* byte's offset has been scanned: the line of every byte delivered        *)
(* carries an offset, or an offset line after it has been scanned.         *)
(***************************************************************************)
C13_NoByteWithoutAnchor ==
    HandBuilt =>
        With(Recs(input), LAMBDA recs :
            \A x \in Range(trace.delivered) :
                AnchorOf(recs, LineOf(x.b)) \in 1..dec.rd)

(***************************************************************************)
(* C14.  The labels at the offset a data line starts at are written on     *)
(* lines of their own immediately before it, in ascending order of name,   *)
(* and no data line holds a byte at a labelled offset except as its first  *)
(* byte.                                                                   *)
(***************************************************************************)
LabelsAt(l, o) == IF o \in DOMAIN l.offLabels THEN l.offLabels[o] ELSE <<>>

LabelsBefore(d, i) ==
    With(LabelsAt(d.labels, d.log[i].ofs), LAMBDA names :
        /\ i > Len(names)
        /\ \A j \in 1..Len(names) : d.w[i - Len(names) + j - 1] = LabelLine(names[j]))

NoLabelInside(d, i) ==
    \A o \in DOMAIN d.labels.offLabels :
        ~(d.log[i].ofs < o /\ o < d.log[i].ofs + d.log[i].n)

C14_LabelsBreakRows ==
    dmp.wcap = -1 =>
        \A i \in DOMAIN dmp.log :
            dmp.log[i].kind = "data" => LabelsBefore(dmp, i) /\ NoLabelInside(dmp, i)

LastCall == calls[Len(calls)]

\* The step is a call of op.
IsCall(op) ==
    /\ Len(calls') = Len(calls) + 1
    /\ calls'[Len(calls')].op = op

\* What the step wrote to the wrapped writer.
NewLog == SubSeq(dmp'.log, Len(dmp.log) + 1, Len(dmp'.log))

Blanks(lg) == Cardinality({k \in DOMAIN lg : lg[k].kind = "blank"})

(***************************************************************************)
(* C16.  A Write that follows a Seek to an offset other than the cursor    *)
(* first writes the bytes buffered for the old position as a line showing  *)
(* its offset, then one blank line if and only if a line has been written  *)
(* by then, and then takes the bytes written at the seek target.           *)
(***************************************************************************)
SeekAway ==
    /\ calls # <<>>
    /\ LastCall.op = "Seek" /\ LastCall.err = "nil" /\ LastCall.n # LastCall.at

C16_SeekThenWrite ==
    [][(IsCall("Write") /\ SeekAway /\ ~dmp.closed /\ dmp.wcap = -1 /\ ~dmp'.panicked) =>
          /\ dmp.data.have > 0 =>
                \E k \in DOMAIN NewLog :
                    /\ NewLog[k] = Logged("data", dmp.data.ofs, dmp.data.have, TRUE)
                    /\ \A m \in 1..(k - 1) : NewLog[m].kind = "label"
                    /\ k < Len(NewLog) => NewLog[k + 1].kind = "blank"
          /\ Blanks(NewLog) = (IF Len(dmp.log) > 0 \/ dmp.data.have > 0 THEN 1 ELSE 0)
          /\ dmp'.data.ofs + dmp'.data.have = LastCall.n + Len(calls'[Len(calls')].p)
      ]_vars

(***************************************************************************)
(* C17.  Seek writes nothing and leaves the line buffer and its offset as  *)
(* they were; a Dumper on which only Seek and Close were called has        *)
(* written nothing.                                                        *)
(***************************************************************************)
OnlySeekAndClose == \A i \in DOMAIN calls : calls[i].op \in {"Seek", "Close"}

C17_SeekWritesNothing ==
    /\ [][IsCall("Seek") => (dmp'.w = dmp.w /\ dmp'.data = dmp.data)]_vars
    /\ [](OnlySeekAndClose => dmp.w = <<>>)

\* A Seek away from the cursor has returned while bytes were buffered.
C17_Witness ==
    /\ calls # <<>>
    /\ LastCall.op = "Seek" /\ LastCall.err = "nil" /\ LastCall.n # LastCall.at
    /\ dmp.data.have > 0
    /\ dmp.nextOff # dmp.data.ofs

(***************************************************************************)
(* C18.  A Write on a Dumper that has been closed fails, by an error or a  *)
(* panic, and writes nothing to the wrapped writer.                        *)
(***************************************************************************)
C18_WriteAfterCloseFails ==
    [][(IsCall("Write") /\ dmp.closed) =>
          /\ calls'[Len(calls')].err # "nil" \/ dmp'.panicked
          /\ dmp'.w = dmp.w
      ]_vars

(***************************************************************************)
(* The Dumper on a writer that fails: it accepts no line, or one line, and *)
(* returns an error for every write after that.                            *)
(***************************************************************************)
WriterCaps == {0, 1}

InitWr ==
    /\ \E lmap \in LabelMaps, cap \in WriterCaps :
           dmp = [NewDumper(NewLabels(lmap)) EXCEPT !.wcap = cap]
    /\ calls = <<>>
    /\ input = <<>>
    /\ origin = Idle
    /\ dec = Idle
    /\ trace = Idle

SpecWr == InitWr /\ [][NextEnc]_vars

(***************************************************************************)
(* C19.  Write returns an error whenever a write of a line to the wrapped  *)
(* writer failed during the call.                                          *)
(***************************************************************************)
C19_WriteReportsWriterError ==
    [][(IsCall("Write") /\ dmp'.werrs > dmp.werrs) =>
          calls'[Len(calls')].err # "nil"]_vars

(***************************************************************************)
(* C20.  A Seek whose whence is none of start, current and end, or whose   *)
(* target resolves to a negative offset, returns an error and changes      *)
(* nothing: seek target, buffer, its offset and the output stay as they    *)
(* were.                                                                   *)
(***************************************************************************)
SeekRejected(c) ==
    \/ c.whence \notin {SeekStart, SeekCurrent, SeekEnd}
    \/ c.whence = SeekStart /\ c.ofs < 0
    \/ c.whence \in {SeekCurrent, SeekEnd} /\ c.ofs + dmp.data.ofs + dmp.data.have < 0

C20_RejectedSeekChangesNothing ==
    [][(IsCall("Seek") /\ SeekRejected(calls'[Len(calls')])) =>
          /\ calls'[Len(calls')].err # "nil"
          /\ dmp' = dmp
      ]_vars

\* A Seek to a negative target has returned its error while bytes were buffered
\* and an earlier seek target was pending.
C20_Witness ==
    /\ calls # <<>>
    /\ LastCall.op = "Seek" /\ LastCall.err = "seek offset must not be negative"
    /\ dmp.data.have > 0
    /\ dmp.nextOff # dmp.data.ofs

(***************************************************************************)
(* C21.  An empty Write at the cursor followed by Close writes the labels  *)
(* at the cursor's offset, in order of name, and then exactly one line,    *)
(* which shows the cursor's offset and holds no bytes.                     *)
(***************************************************************************)
\* The calls so far are Seeks, then one empty Write, then Close.
EmptyWriteThenClose ==
    /\ Len(calls) >= 2
    /\ calls[Len(calls)].op = "Close"
    /\ calls[Len(calls) - 1].op = "Write" /\ calls[Len(calls) - 1].p = <<>>
    /\ \A i \in 1..(Len(calls) - 2) : calls[i].op = "Seek"

C21_EmptyWriteShowsOffset ==
    EmptyWriteThenClose =>
        With(calls[Len(calls) - 1].at, LAMBDA c :
        With(LabelsAt(dmp.labels, c), LAMBDA names :
            /\ Len(dmp.w) = Len(names) + 1
            /\ \A j \in 1..Len(names) : dmp.w[j] = LabelLine(names[j])
            /\ dmp.log[Len(dmp.log)] = Logged("data", c, 0, TRUE)
            /\ SubSeq(dmp.w[Len(dmp.w)], 1, 8) = FmtHex(c, 8)))

\* An empty Write after a Seek to an offset with two labels, then Close.
C21_Witness ==
    /\ EmptyWriteThenClose
    /\ calls[Len(calls) - 1].at > 0
    /\ Len(LabelsAt(dmp.labels, calls[Len(calls) - 1].at)) = 2

(***************************************************************************)
(* The label table on its own: a table made by NewLabels, then changed by  *)
(* Set and Reset.  origin holds the table (l), the calls made on it (ops)  *)
(* and the map the calls describe (want): the map given to NewLabels or    *)
(* Reset, with every name bound to the offset last Set for it.             *)
(***************************************************************************)
MaxLabelOps == 3

NameAB == <<97, 98>>

SetNames == {NameA, NameB, NameAB}

SetOffsets == {0, 2, 16}

InitLab ==
    /\ \E lmap \in LabelMaps :
           origin = [kind |-> "labels", l |-> NewLabels(lmap), want |-> lmap, ops |-> <<>>]
    /\ input = <<>>
    /\ trace = Idle
    /\ dec = Idle
    /\ dmp = Idle
    /\ calls = Idle

LSet(name, ofs) ==
    /\ Len(origin.ops) < MaxLabelOps
    /\ origin' = [origin EXCEPT
           !.l = LabelsSet(origin.l, name, ofs),
           !.want = [n \in DOMAIN origin.want \cup {name} |->
                        IF n = name THEN ofs ELSE origin.want[n]],
           !.ops = Append(origin.ops, [op |-> "Set", name |-> name, ofs |-> ofs])]
    /\ UNCHANGED <<input, trace, dec, encVars>>

LReset(lmap) ==
    /\ Len(origin.ops) < MaxLabelOps
    /\ origin' = [origin EXCEPT
           !.l = LabelsReset(lmap),
           !.want = lmap,
           !.ops = Append(origin.ops, [op |-> "Reset", name |-> <<>>, ofs |-> 0])]
    /\ UNCHANGED <<input, trace, dec, encVars>>

NextLab ==
    \/ \E name \in SetNames, ofs \in SetOffsets : LSet(name, ofs)
    \/ \E lmap \in LabelMaps : LReset(lmap)

SpecLab == InitLab /\ [][NextLab]_vars

\* What an iterator yields from where it stands until it reports exhaustion.
RECURSIVE IterYields(_)
IterYields(it) == IF it.Ofs < 0 THEN <<>> ELSE <<it.Ofs>> \o IterYields(IterNext(it))

(***************************************************************************)
(* C22.  The offset index of a label table is the inverse of its map from  *)
(* name to offset: every name is under the offset last set for it and      *)
(* under no other, the offsets are strictly ascending and each has names,  *)
(* the names under an offset ascend, and an iterator started at o yields   *)
(* the offsets >= o in ascending order and then is exhausted.              *)
(***************************************************************************)
C22_IndexIsInverse ==
    With(origin.l, LAMBDA l :
    With({origin.want[n] : n \in DOMAIN origin.want}, LAMBDA offs :
        /\ l.lmap = origin.want
        /\ DOMAIN l.offLabels = offs
        /\ \A o \in offs : Range(l.offLabels[o]) = {n \in DOMAIN origin.want : origin.want[n] = o}
        /\ \A o \in offs : \A i \in 1..(Len(l.offLabels[o]) - 1) :
               StrLess(l.offLabels[o][i], l.offLabels[o][i + 1])
        /\ Range(l.offsets) = offs
        /\ \A i \in 1..(Len(l.offsets) - 1) : l.offsets[i] < l.offsets[i + 1]
        /\ \A o \in SetOffsets \cup {1, 17} :
               IterYields(LabelsIter(l, o)) = SortOffsets({x \in offs : x >= o})))

\* A name has been set to a second offset, where it joined another name.
C22_Witness ==
    /\ \E i, j \in DOMAIN origin.ops :
           /\ i < j
           /\ origin.ops[i].op = "Set" /\ origin.ops[j].op = "Set"
           /\ origin.ops[i].name = origin.ops[j].name
           /\ origin.ops[i].ofs # origin.ops[j].ofs
           /\ \A k \in (j + 1)..Len(origin.ops) : origin.ops[k].op = "Set"
    /\ \E o \in DOMAIN origin.l.offLabels : Len(origin.l.offLabels[o]) >= 2
    /\ Len(origin.l.offsets) >= 2

(***************************************************************************)
(* The scanner on one line that starts with an offset field: upper-case    *)
(* hexadecimal digits, alone on the line or followed by one data byte.     *)
(* The short fields are every digit string of up to MaxOfsDigits digits    *)
(* over OfsDigits; the long ones are fields of 8, 15 and 16 digits, those  *)
(* with bit 63 clear having a value below 2^31.                            *)
(***************************************************************************)
MaxOfsDigits == 4

\* The digits 0, 1 and F.
OfsDigits == {48, 49, 70}

ShortFields == UNION {[1..n -> OfsDigits] : n \in 1..MaxOfsDigits}

LongFields ==
    { Repeat(48, 5) \o <<49, 48, 48>>,                   \* 00000100
      Repeat(48, 15),                                    \* fifteen zeros
      Repeat(48, 14) \o <<49, 48>>,                      \* 0000000000000010
      Repeat(48, 8) \o <<55>> \o Repeat(70, 7),          \* 000000007FFFFFFF
      <<56>> \o Repeat(48, 15),                          \* 8000000000000000
      Repeat(70, 14) \o <<48, 48>>,                      \* FFFFFFFFFFFFFF00
      Repeat(70, 16) }                                   \* FFFFFFFFFFFFFFFF

OfsFields == ShortFields \cup LongFields

\* What follows the field: the end of the line, or two blanks and a data byte.
OfsTrailers == { <<>>, <<SP, SP, 49, 48>> }

InitOfs ==
    /\ \E f \in OfsFields, tr \in OfsTrailers :
           /\ input = << f \o tr \o <<NL>> >>
           /\ origin = [kind |-> "offset", field |-> f]
    /\ trace = Unscanned
    /\ dec = Idle
    /\ dmp = Idle
    /\ calls = Idle

ScanOffsetLine ==
    /\ trace = Unscanned
    /\ origin.kind = "offset"
    /\ trace' = [kind |-> "scanned", rec |-> decodeLine(input, 0)]
    /\ UNCHANGED <<input, origin, dec, encVars>>

SpecOfs == InitOfs /\ [][ScanOffsetLine]_vars

\* The number a string of hexadecimal digits denotes, most significant digit first.
RECURSIVE FieldValue(_)
FieldValue(f) ==
    IF f = <<>> THEN 0
    ELSE 16 * FieldValue(SubSeq(f, 1, Len(f) - 1))
         + (IF f[Len(f)] >= 65 THEN f[Len(f)] - 65 + 10 ELSE f[Len(f)] - 48)

\* Bit 63 of a 16-digit field is the top bit of its first digit.
Bit63Set(f) == Len(f) = 16 /\ f[1] \notin 48..55

\* C23: an offset field with an odd number of digits is rejected with an error
\* that is not the offset-too-large one, a 16-digit field with bit 63 set is
\* rejected with "offset too large", and a field of 2 to 16 digits, even in
\* number, with bit 63 clear makes the line's offset the big-endian value of its
\* digits.
C23_OffsetFieldParsed ==
    (trace # Unscanned /\ origin.kind = "offset") =>
        /\ ~trace.rec.panic
        /\ Len(origin.field) % 2 = 1 =>
               /\ trace.rec.err \notin {"nil", "offset too large"}
               /\ ~trace.rec.hasOffset
        /\ Bit63Set(origin.field) =>
               /\ trace.rec.err = "offset too large"
               /\ ~trace.rec.hasOffset
        /\ (Len(origin.field) % 2 = 0 /\ ~Bit63Set(origin.field)) =>
               /\ trace.rec.err = "nil"
               /\ trace.rec.hasOffset
               /\ trace.rec.offset = FieldValue(origin.field)

\* The 16-digit field 000000007FFFFFFF before a data byte has been scanned to the
\* offset 2^31 - 1.
C23_Witness ==
    /\ trace # Unscanned
    /\ origin.kind = "offset"
    /\ origin.field = Repeat(48, 8) \o <<55>> \o Repeat(70, 7)
    /\ trace.rec.hasOffset
    /\ trace.rec.offset = 2147483647
    /\ trace.rec.data = <<16>>

(***************************************************************************)
(* C24.  On an empty source every Next call returns io.EOF with zero bytes *)
(* skipped: the first one, and every one after it.                         *)
(***************************************************************************)
C24_EmptySourceStaysAtEOF ==
    (input = <<>> /\ origin.kind = "lines" /\ trace.last.op = "Next") =>
        /\ trace.last.err = "EOF"
        /\ trace.last.skipped = 0

(***************************************************************************)
(* C25.  Reading on with buffers of one size until Read reports an error   *)
(* (io.EOF at the end of the segment included) gives the same bytes in the *)
(* same order, and ends with the same error, as reading on with one large  *)
(* buffer.  This holds in every state the caller can bring the Decoder to, *)
(* so that it holds for every mix of the sizes as well.                    *)
(***************************************************************************)
\* A buffer larger than any input modelled.
LargeBuf == 64

\* Read(p) with len(p) = pLen, again and again until it returns an error.
RECURSIVE ReadAll(_, _, _)
ReadAll(d, text, pLen) ==
    With(DecoderRead(d, text, pLen), LAMBDA r :
        IF r.d.panicked \/ r.err # "nil"
        THEN [got |-> r.got, err |-> r.err, panicked |-> r.d.panicked]
        ELSE With(ReadAll(r.d, text, pLen), LAMBDA rest :
                 [rest EXCEPT !.got = r.got \o rest.got]))

Occurrences(seq, b) == Cardinality({k \in DOMAIN seq : seq[k] = b})

DeliveredBytes == [k \in DOMAIN trace.delivered |-> trace.delivered[k].b]

NothingSkipped == trace.proto \/ (trace.total = 0 /\ trace.nexts <= 1)

C26_NoByteLost ==
    (HandBuilt /\ ~dec.panicked /\ NothingSkipped) =>
        With(Recs(input), LAMBDA recs :
            WellFormed(recs) =>
                \A i \in 1..dec.rd : \A j \in DOMAIN recs[i].data :
                    Occurrences(DeliveredBytes \o dec.data \o dec.nextData,
                                recs[i].data[j]) = 1)

(***************************************************************************)
(* C27.  The assertions of dataBuf never fire, whatever the label table    *)
(* and the calls: fill is asked for a width within 0..16 that is at least  *)
(* the number of bytes buffered, and set is called on an empty buffer.     *)
(* A Dumper on which one of them fired is marked panicked.                 *)
(***************************************************************************)
C27_AssertionsNeverFire == dmp # Idle => ~dmp.panicked

(***************************************************************************)
(* C28.  A data line shows its eight-digit offset if and only if it starts *)
(* at a multiple of 16 or is a forced line; otherwise its offset field is  *)
(* blank.  Blank byte columns before the first byte appear only on lines   *)
(* that start off a multiple of 16 and are not forced.  A call that ends   *)
(* on writing a line with a blank offset field leaves writePending set     *)
(* (a later pass of the loop of Write assigns writePending again).  The    *)
(* forced lines are the line Close writes and the line a Write writes      *)
(* first when it honors a seek with something to flush.                    *)
(***************************************************************************)
\* The lines the step wrote, as text; NewLog says what each of them is.
NewText == SubSeq(dmp'.w, Len(dmp.w) + 1, Len(dmp'.w))

DataLines(lg) == {k \in DOMAIN lg : lg[k].kind = "data"}

\* The Write that starts in this state flushes before it moves to d.nextOff.
HonorFlushes == dmp.data.ofs # dmp.nextOff /\ (dmp.writePending \/ dmp.data.have > 0)

ForcedLine(k) ==
    \/ IsCall("Close")
    \/ IsCall("Write") /\ HonorFlushes /\ \A m \in DataLines(NewLog) : k <= m

\* The number of blank places before the opening bar of the character column,
\* which writeLine puts at place 61 of a line without them.
LeadingBlanks(text) ==
    (CHOOSE i \in DOMAIN text : text[i] = BAR /\ \A m \in 1..(i - 1) : text[m] # BAR) - 61

\* The place of byte column c (from 0) in a line.
ColumnAt(c) == 11 + 3 * c + (IF c >= 8 THEN 1 ELSE 0)

C28_OffsetShownIffAlignedOrForced ==
    [][(Len(calls') = Len(calls) + 1) =>
          \A k \in DataLines(NewLog) :
              With(NewLog[k], LAMBDA e :
              With(NewText[k], LAMBDA text :
                  /\ (SubSeq(text, 1, 8) = FmtHex(e.ofs, 8))
                         <=> (e.ofs % RowLen = 0 \/ ForcedLine(k))
                  /\ SubSeq(text, 1, 8) # FmtHex(e.ofs, 8) =>
                         SubSeq(text, 1, 8) = Repeat(SP, 8)
                  /\ LeadingBlanks(text) > 0 =>
                         e.ofs % RowLen # 0 /\ ~ForcedLine(k)
                  /\ \A c \in 0..(LeadingBlanks(text) - 1) : text[ColumnAt(c)] = SP
                  /\ e.n > 0 => text[ColumnAt(LeadingBlanks(text))] # SP
                  /\ (SubSeq(text, 1, 8) = Repeat(SP, 8)
                      /\ k = Len(NewLog) /\ dmp'.data.have = 0) => dmp'.writePending))
      ]_vars

\* A Write has written a line that starts at offset 15 with a blank offset
\* field after fifteen blank columns and left writePending set, and Close has
\* then written the forced line that shows the offset 16.
C28_Witness ==
    /\ dmp # Idle
    /\ Len(dmp.log) >= 2
    /\ With(dmp.log[Len(dmp.log) - 1], LAMBDA e :
           e.kind = "data" /\ e.ofs = RowLen - 1 /\ e.n = 1 /\ ~e.shown)
    /\ LeadingBlanks(dmp.w[Len(dmp.w) - 1]) = RowLen - 1
    /\ dmp.log[Len(dmp.log)] = Logged("data", RowLen, 0, TRUE)
    /\ dmp.closed
    /\ dmp.writePending

(***************************************************************************)
(* C29.  Seek(0, io.SeekCurrent) returns the caller's cursor, the offset   *)
(* the next byte written lands at, and the next byte written still lands   *)
(* there after the call; also while an earlier Seek waits for a Write to   *)
(* honor it and while bytes are buffered for the current line.             *)
(***************************************************************************)
\* Where the first byte of the next Write goes: honorSeekIfNeeded moves to
\* d.nextOff when it differs from d.data.ofs, and fill appends otherwise.
LandsAt(d) == IF d.data.ofs # d.nextOff THEN d.nextOff ELSE d.data.ofs + d.data.have

C29_RelativeSeekComposes ==
    [][(IsCall("Seek") /\ calls'[Len(calls')].ofs = 0
                       /\ calls'[Len(calls')].whence = SeekCurrent) =>
          /\ calls'[Len(calls')].err = "nil"
          /\ calls'[Len(calls')].n = Cursor(calls)
          /\ LandsAt(dmp') = Cursor(calls)
      ]_vars

(***************************************************************************)
(* The Dumper's caller when it may call Close again on a closed Dumper:    *)
(* Close tests nothing before it runs wrapUp.                              *)
(***************************************************************************)
MaxCloses == 2

NumCloses(cs) == Cardinality({i \in DOMAIN cs : cs[i].op = "Close"})

CloseAgain ==
    /\ ~dmp.panicked
    /\ dmp.closed
    /\ NumCloses(calls) < MaxCloses
    /\ dmp' = DumperClose(dmp)
    /\ calls' = Append(calls, Call("Close", <<>>, Cursor(calls), 0, 0, 0, "nil"))
    /\ UNCHANGED decVars

NextReclose ==
    \/ NextEnc
    \/ CloseAgain

SpecReclose == InitEnc /\ [][NextReclose]_vars

(***************************************************************************)
(* C30.  Close is idempotent: a Close on a closed Dumper on which no Write *)
(* was made since it was closed writes nothing, whatever Writes and Seeks  *)
(* came before the first Close.                                            *)
(***************************************************************************)
NoWriteSinceClose ==
    \A i \in DOMAIN calls :
        calls[i].op = "Close" => \A j \in (i + 1)..Len(calls) : calls[j].op # "Write"

C30_CloseIdempotent ==
    [][(IsCall("Close") /\ dmp.closed /\ NoWriteSinceClose) => dmp'.w = dmp.w]_vars

(***************************************************************************)
(* The scanner on one line of data: a row of byte pairs, with or without   *)
(* an offset before it, whose last token has two, three or four digits;    *)
(* and on lines that are one offset field of 16, 17 or 18 digits.          *)
(***************************************************************************)
MaxPairs == 17

\* The digits of the last byte token of a row.
TokenWidths == {2, 3, 4}

\* What a data row starts with: the blanks of an omitted offset, or an offset.
RowStarts == { Repeat(SP, 6), <<48, 48, 49, 48, SP, SP>> }

\* n byte tokens, the last of w digits, each followed by a blank.
RowTokens(n, w) ==
    Flatten([i \in 1..n |->
        (IF i = n THEN Repeat(49, w) ELSE FmtHex(i, 2)) \o <<SP>>])

\* The lengths of the long offset fields.
LongOfsLens == {16, 17, 18}

InitLine ==
    /\ \/ \E st \in RowStarts, n \in 1..MaxPairs, w \in TokenWidths :
              /\ input = << st \o RowTokens(n, w) \o <<NL>> >>
              /\ origin = [kind |-> "row", pairs |-> n, width |-> w, digits |-> 0]
       \/ \E len \in LongOfsLens :
              /\ input = << Repeat(48, len) \o <<NL>> >>
              /\ origin = [kind |-> "row", pairs |-> 0, width |-> 0, digits |-> len]
    /\ trace = Unscanned
    /\ dec = Idle
    /\ dmp = Idle
    /\ calls = Idle

ScanRowLine ==
    /\ trace = Unscanned
    /\ origin.kind = "row"
    /\ trace' = [kind |-> "scanned", rec |-> decodeLine(input, 0)]
    /\ UNCHANGED <<input, origin, dec, encVars>>

SpecLine == InitLine /\ [][ScanRowLine]_vars

(***************************************************************************)
(* C31.  The scanner never crashes on a line: it returns an error or a     *)
(* record of at most 16 data bytes.  A byte token of more than two digits  *)
(* gives the too-many-characters error, a row of more than 16 byte pairs   *)
(* is not read out of range, and an offset field of more than 16 digits    *)
(* gives an error.                                                         *)
(***************************************************************************)
C31_ScannerNeverCrashes ==
    (trace # Unscanned /\ origin.kind = "row") =>
        /\ ~trace.rec.panic
        /\ trace.rec.err # "nil" \/ Len(trace.rec.data) <= RowLen
        /\ (origin.width > 2 /\ origin.pairs <= RowLen) =>
               trace.rec.err = "too many characters"
        /\ origin.digits > 16 => trace.rec.err # "nil"

(***************************************************************************)
(* Two Decoders side by side: one on a hand-built text with blank lines    *)
(* and full-line comments among its lines, one on the same text without    *)
(* them.  The caller makes the same call on both.                          *)
(***************************************************************************)
NoopShapes ==
    { [k |-> "blank", ofs |-> 0, n |-> 0],      \* an empty line
      [k |-> "comment", ofs |-> 0, n |-> 0] }   \* # c

TwinShapes ==
    { [k |-> "ofs", ofs |-> 0, n |-> 2],
      [k |-> "ofs", ofs |-> 2, n |-> 2],
      [k |-> "ofs", ofs |-> 5, n |-> 0],
      [k |-> "omit", ofs |-> 0, n |-> 1],
      [k |-> "label", ofs |-> 0, n |-> 0] } \cup NoopShapes

TwinSeqs == UNION {[1..n -> TwinShapes] : n \in 1..MaxLines}

\* The lines of text whose shape is not that of a no-op line.
RECURSIVE WithoutNoops(_, _)
WithoutNoops(text, shapes) ==
    IF text = <<>> THEN <<>>
    ELSE (IF Head(shapes) \in NoopShapes THEN <<>> ELSE <<Head(text)>>)
         \o WithoutNoops(Tail(text), Tail(shapes))

Stripped == WithoutNoops(input, origin.shapes)

TwinResult(op, n, err, skipped, got) ==
    [op |-> op, n |-> n, err |-> err, skipped |-> skipped, got |-> got]

InitTwin ==
    /\ \E shapes \in TwinSeqs :
           /\ input = HandText(shapes)
           /\ origin = [kind |-> "twin", shapes |-> shapes]
    /\ dec = [a |-> NewDecoder, b |-> NewDecoder]
    /\ trace = [a |-> TwinResult("none", 0, "nil", 0, <<>>),
                b |-> TwinResult("none", 0, "nil", 0, <<>>)]
    /\ dmp = Idle
    /\ calls = Idle

ReadBoth(pLen) ==
    /\ origin.kind = "twin"
    /\ ~dec.a.panicked /\ ~dec.b.panicked
    /\ With(DecoderRead(dec.a, input, pLen), LAMBDA ra :
       With(DecoderRead(dec.b, Stripped, pLen), LAMBDA rb :
           /\ dec' = [a |-> ra.d, b |-> rb.d]
           /\ trace' = [a |-> TwinResult("Read", Len(ra.got), ra.err, 0, ra.got),
                        b |-> TwinResult("Read", Len(rb.got), rb.err, 0, rb.got)]))
    /\ UNCHANGED <<input, origin, encVars>>

NextBoth ==
    /\ origin.kind = "twin"
    /\ ~dec.a.panicked /\ ~dec.b.panicked
    /\ With(DecoderNext(dec.a, input), LAMBDA ra :
       With(DecoderNext(dec.b, Stripped), LAMBDA rb :
           /\ dec' = [a |-> ra.d, b |-> rb.d]
           /\ trace' = [a |-> TwinResult("Next", 0, ra.err, ra.skipped, <<>>),
                        b |-> TwinResult("Next", 0, rb.err, rb.skipped, <<>>)]))
    /\ UNCHANGED <<input, origin, encVars>>

NextTwin ==
    \/ \E pLen \in ReadLens : ReadBoth(pLen)
    \/ NextBoth

SpecTwin == InitTwin /\ [][NextTwin]_vars

(***************************************************************************)
(* C32.  A blank line and a full-line comment scan to a record with no     *)
(* offset, no data, no label and no error, and the Decoder skips them:     *)
(* every call returns what it returns on the text without those lines and  *)
(* leaves the Decoder with the same position, the same bytes held for the  *)
(* current and the next segment, the same label table and the same error.  *)
(***************************************************************************)
\* The no-op lines among the first n lines of the input.
NoopsIn(n) == Cardinality({i \in 1..n : origin.shapes[i] \in NoopShapes})

C32_NoopLinesSkipped ==
    origin.kind = "twin" =>
        /\ \A i \in DOMAIN input :
               origin.shapes[i] \in NoopShapes =>
                   decodeLine(input, i - 1) = Rec(0, FALSE, <<>>, <<>>, "nil", FALSE)
        /\ trace.a = trace.b
        /\ [dec.a EXCEPT !.rd = 0] = [dec.b EXCEPT !.rd = 0]
        /\ dec.b.rd = dec.a.rd - NoopsIn(dec.a.rd)

\* The Decoder has scanned past a blank line and a comment that stand between
\* a label or offset-omitted bytes and the offset line that places them, and
\* has delivered bytes of that run.
C32_Witness ==
    /\ origin.kind = "twin"
    /\ Len(input) = 3
    /\ origin.shapes[1].k \in {"label", "omit"}
    /\ origin.shapes[2] \in NoopShapes
    /\ origin.shapes[3].k = "ofs" /\ origin.shapes[3].n = 2
    /\ dec.a.rd = 3
    /\ trace.a.op = "Read" /\ trace.a.n > 0
    /\ dec.b.rd = 2

====
